---- MODULE Spec2Model ----
(***************************************************************************)
(* Model of git-spell-check.py: the unified-diff parser                    *)
(* (parse_diff_content), the word/line correlation (run_spell_checker),    *)
(* the two renderers and the orchestration in main.                        *)
(*                                                                         *)
(* Python strings are sequences of one-character strings, so that          *)
(* startswith, slicing, split, strip, splitlines, isalpha and int() are    *)
(* computed the way the interpreter computes them.  None is the empty      *)
(* tuple <<>> and a present value v is <<v>>.  A dict is the sequence of   *)
(* its <<key, value>> pairs in insertion order.                            *)
(***************************************************************************)
EXTENDS Naturals, Integers, Sequences, FiniteSets, TLC

VARIABLES
    lines,            \* parse_diff_content: the diff lines consumed so far
    current_file,     \* parse_diff_content: None or the file name
    current_line,     \* parse_diff_content: None or the running line number
    file_changes,     \* parse_diff_content / main: dict file -> [(lineno, text)]
    sc_lines,         \* run_spell_checker: its `lines` argument
    misspelled,       \* run_spell_checker: None or the checker's word set
    dictionary_words, \* run_spell_checker / main: the allow-list
    annotations,      \* run_spell_checker: the list being built
    li,               \* run_spell_checker: lines of the outer loop done
    args,             \* main: the parsed command line
    is_debug,         \* global is_debug
    pc,               \* main / run_spell_checker: position in the code
    fidx,             \* main: files of the `for file, lines` loop done
    any_issues,       \* main: any_issues
    stdout,           \* what has been printed, in order
    exit_status,      \* None or the process exit status
    raised            \* "none" or the exception that left main uncaught

vars == <<lines, current_file, current_line, file_changes, sc_lines,
          misspelled, dictionary_words, annotations, li, args, is_debug,
          pc, fidx, any_issues, stdout, exit_status, raised>>

parseVars == <<lines, current_file, current_line, file_changes>>
checkVars == <<sc_lines, misspelled, annotations, li>>
mainVars  == <<args, fidx, any_issues, exit_status, raised>>

None == <<>>
Some(v) == <<v>>

(***************************************************************************)
(* Bounds of the model.                                                    *)
(***************************************************************************)
MaxDiffLen == 5     \* diff lines fed to parse_diff_content
MaxLines == 2       \* (lineno, text) pairs handed to run_spell_checker
MaxFiles == 2       \* files returned by get_diff_files

(***************************************************************************)
(* Python string primitives.                                               *)
(***************************************************************************)
Letters == {"a", "b", "c", "d", "e", "f", "g", "h", "i", "j", "k", "l", "m",
            "n", "o", "p", "q", "r", "s", "t", "u", "v", "w", "x", "y", "z"}
Digits == <<"0", "1", "2", "3", "4", "5", "6", "7", "8", "9">>

IsSpace(c) == c \in {" ", "\t", "\n"}
IsAlpha(c) == c \in Letters
IsDigit(c) == \E k \in 1..10 : Digits[k] = c
DigitVal(c) == (CHOOSE k \in 1..10 : Digits[k] = c) - 1

\* s.startswith(p)
StartsWith(s, p) == Len(s) >= Len(p) /\ SubSeq(s, 1, Len(p)) = p

\* s[n:]
DropFirst(s, n) == IF n >= Len(s) THEN <<>> ELSE SubSeq(s, n + 1, Len(s))

\* s.lstrip(), s.rstrip(), s.strip()
RECURSIVE LStrip(_)
LStrip(s) == IF s # <<>> /\ IsSpace(Head(s)) THEN LStrip(Tail(s)) ELSE s

RECURSIVE RStrip(_)
RStrip(s) ==
    IF s # <<>> /\ IsSpace(s[Len(s)]) THEN RStrip(SubSeq(s, 1, Len(s) - 1))
    ELSE s

Strip(s) == RStrip(LStrip(s))

\* s.split(sep) for a one-character sep: empty fields are kept
RECURSIVE SplitOn(_, _, _)
SplitOn(s, sep, cur) ==
    IF s = <<>> THEN <<cur>>
    ELSE IF Head(s) = sep THEN <<cur>> \o SplitOn(Tail(s), sep, <<>>)
    ELSE SplitOn(Tail(s), sep, Append(cur, Head(s)))

\* s.split(): runs of whitespace separate, empty fields are dropped
RECURSIVE SplitWs(_, _)
SplitWs(s, cur) ==
    IF s = <<>> THEN (IF cur = <<>> THEN <<>> ELSE <<cur>>)
    ELSE IF IsSpace(Head(s))
         THEN (IF cur = <<>> THEN <<>> ELSE <<cur>>) \o SplitWs(Tail(s), <<>>)
         ELSE SplitWs(Tail(s), Append(cur, Head(s)))

Split(s) == SplitWs(s, <<>>)

\* s.splitlines(): the pieces between line breaks; a trailing line break
\* opens no further line
SplitLines(s) ==
    LET breaks == {i \in 1..Len(s) : s[i] = "\n"}
        \* the k-th line break, Len(s) + 1 standing for the end of s
        brk(k) == IF k = 0 THEN 0
                  ELSE IF k > Cardinality(breaks) THEN Len(s) + 1
                  ELSE CHOOSE i \in breaks :
                          Cardinality({m \in breaks : m < i}) = k - 1
        count == Cardinality(breaks)
                   + (IF s # <<>> /\ s[Len(s)] # "\n" THEN 1 ELSE 0)
    IN  [k \in 1..count |-> SubSeq(s, brk(k - 1) + 1, brk(k) - 1)]

\* '\n'.join(parts)
RECURSIVE JoinLines(_)
JoinLines(parts) ==
    IF parts = <<>> THEN <<>>
    ELSE IF Len(parts) = 1 THEN parts[1]
    ELSE parts[1] \o <<"\n">> \o JoinLines(Tail(parts))

\* int(s): an optional sign and one or more digits, else ValueError (None)
RECURSIVE DecimalValue(_, _)
DecimalValue(s, acc) ==
    IF s = <<>> THEN acc
    ELSE DecimalValue(Tail(s), 10 * acc + DigitVal(Head(s)))

AllDigits(s) == s # <<>> /\ \A k \in 1..Len(s) : IsDigit(s[k])

ParseInt(s) ==
    IF AllDigits(s) THEN Some(DecimalValue(s, 0))
    ELSE IF s # <<>> /\ Head(s) = "+" /\ AllDigits(Tail(s))
         THEN Some(DecimalValue(Tail(s), 0))
    ELSE IF s # <<>> /\ Head(s) = "-" /\ AllDigits(Tail(s))
         THEN Some(0 - DecimalValue(Tail(s), 0))
    ELSE None

(***************************************************************************)
(* dict helpers (insertion-ordered).                                       *)
(***************************************************************************)
HasKey(d, k) == \E n \in 1..Len(d) : d[n][1] = k

\* d.get(k, [])
Get(d, k) ==
    IF HasKey(d, k) THEN d[CHOOSE n \in 1..Len(d) : d[n][1] = k][2] ELSE <<>>

\* d.setdefault(k, []).append(v)
SetDefaultAppend(d, k, v) ==
    IF HasKey(d, k)
    THEN [n \in 1..Len(d) |->
            IF d[n][1] = k THEN <<k, Append(d[n][2], v)>> ELSE d[n]]
    ELSE Append(d, <<k, <<v>>>>)

(***************************************************************************)
(* parse_diff_content                                                      *)
(***************************************************************************)
\* line.startswith('+++')
IsFileHeader(line) == StartsWith(line, <<"+", "+", "+">>)

\* the elif: line.startswith('@@')
IsHunkHeader(line) == ~IsFileHeader(line) /\ StartsWith(line, <<"@", "@">>)

\* the second elif: line.startswith('+') and not line.startswith('+++')
IsAddedLine(line) ==
    /\ ~IsFileHeader(line) /\ ~IsHunkHeader(line)
    /\ StartsWith(line, <<"+">>) /\ ~StartsWith(line, <<"+", "+", "+">>)

\* none of the three branches is taken
IsOtherLine(line) ==
    ~IsFileHeader(line) /\ ~IsHunkHeader(line) /\ ~IsAddedLine(line)

\* current_file = line[4:], minus a leading 'b/'
FileName(line) ==
    LET f == DropFirst(line, 4)
    IN  IF StartsWith(f, <<"b", "/">>) THEN DropFirst(f, 2) ELSE f

\* next((m for m in line.split() if m.startswith('+')), None)
FirstPlusToken(line) ==
    LET toks == Split(line)
        idx == {k \in 1..Len(toks) : StartsWith(toks[k], <<"+">>)}
    IN  IF idx = {} THEN None
        ELSE Some(toks[CHOOSE k \in idx : \A m \in idx : k <= m])

\* the value of current_line after a '@@' line, cur being its value before
HunkStart(line, cur) ==
    LET match == FirstPlusToken(line)
    IN  IF match # None
        THEN ParseInt(DropFirst(SplitOn(match[1], ",", <<>>)[1], 1))
        ELSE cur

\* `if current_file` : neither None nor ''
Truthy(f) == f # None /\ f[1] # <<>>

\* variant: the leading '+' is kept in the recorded text
AddedEntryKeepsPlus(lineno, line) == <<lineno, line>>

\* the tuple appended for an added line
AddedEntry(lineno, line) == <<lineno, DropFirst(line, 1)>>

\* one iteration of the loop over diff_text.splitlines()
ParseLine(st, line) ==
    IF IsFileHeader(line)
    THEN [st EXCEPT !.current_file = Some(FileName(line))]
    ELSE IF IsHunkHeader(line)
    THEN [st EXCEPT !.current_line = HunkStart(line, st.current_line)]
    ELSE IF IsAddedLine(line)
    THEN IF Truthy(st.current_file) /\ st.current_line # None
         THEN [st EXCEPT
                 !.file_changes =
                     SetDefaultAppend(st.file_changes, st.current_file[1],
                                      AddedEntry(st.current_line[1], line)),
                 !.current_line = Some(st.current_line[1] + 1)]
         ELSE st
    ELSE st

ParserInit ==
    [current_file |-> None, current_line |-> None, file_changes |-> <<>>]

RECURSIVE ParseLines(_, _)
ParseLines(st, ls) ==
    IF ls = <<>> THEN st ELSE ParseLines(ParseLine(st, Head(ls)), Tail(ls))

\* parse_diff_content(diff_text)
ParseDiffContent(diff_text) ==
    ParseLines(ParserInit, SplitLines(diff_text)).file_changes

(***************************************************************************)
(* The diff lines fed to the parser.                                       *)
(***************************************************************************)
LineDiffGit == <<"d", "i", "f", "f", " ", "-", "-", "g", "i", "t", " ", "a", "/", "f", " ", "b", "/", "f">>
LineIndex == <<"i", "n", "d", "e", "x", " ", "1", ".", ".", "2">>
LineOldFile == <<"-", "-", "-", " ", "a", "/", "f">>
LineNewFileF == <<"+", "+", "+", " ", "b", "/", "f">>
LineNewFileG == <<"+", "+", "+", " ", "b", "/", "g">>
LineHunk == <<"@", "@", " ", "-", "1", " ", "+", "1", ",", "2", " ", "@", "@">>
LineHunkNonNumeric == <<"@", "@", " ", "-", "1", " ", "+", "x", " ", "@", "@">>
LineHunkNoPlus == <<"@", "@", " ", "b", "a", "d", " ", "@", "@">>
LineAdded == <<"+", "a", "b">>
LineAddedPlusPlus == <<"+", "+", "+", "c">>
LineContext == <<" ", "a", "b">>
LineRemoved == <<"-", "a", "b">>

DiffLinePool ==
    {LineDiffGit, LineIndex, LineOldFile, LineNewFileF, LineNewFileG,
     LineHunk, LineHunkNonNumeric, LineHunkNoPlus, LineAdded,
     LineAddedPlusPlus, LineContext, LineRemoved}

ParserState ==
    [current_file |-> current_file, current_line |-> current_line,
     file_changes |-> file_changes]

\* the loop body applied to the next line of the diff
Feed(line) ==
    LET st == ParseLine(ParserState, line)
    IN  /\ Len(lines) < MaxDiffLen
        /\ lines' = Append(lines, line)
        /\ current_file' = st.current_file
        /\ current_line' = st.current_line
        /\ file_changes' = st.file_changes
        /\ UNCHANGED <<sc_lines, misspelled, dictionary_words, annotations,
                       li, args, is_debug, pc, fidx, any_issues, stdout,
                       exit_status, raised>>

ParseFileHeader == \E line \in DiffLinePool : IsFileHeader(line) /\ Feed(line)

ParseHunkHeader == \E line \in DiffLinePool : IsHunkHeader(line) /\ Feed(line)

ParseAddedLine == \E line \in DiffLinePool : IsAddedLine(line) /\ Feed(line)

ParseOtherLine == \E line \in DiffLinePool : IsOtherLine(line) /\ Feed(line)

Idle ==
    /\ sc_lines = <<>> /\ misspelled = None /\ dictionary_words = {}
    /\ annotations = <<>> /\ li = 0 /\ args = None /\ is_debug = FALSE
    /\ fidx = 0 /\ any_issues = FALSE /\ stdout = <<>>
    /\ exit_status = None /\ raised = "none"

InitParse ==
    /\ lines = <<>> /\ current_file = None /\ current_line = None
    /\ file_changes = <<>>
    /\ pc = "parse"
    /\ Idle

NextParse ==
    \/ ParseFileHeader
    \/ ParseHunkHeader
    \/ ParseAddedLine
    \/ ParseOtherLine

SpecParse == InitParse /\ [][NextParse]_vars

(***************************************************************************)
(* The unified-diff format, stated independently of the parser: a file     *)
(* section is '--- old', '+++ new' and one or more hunks; a hunk is        *)
(* '@@ -a[,b] +c[,d] @@' followed by body lines (' ' context, '-' removed, *)
(* '+' added) that use up b old-side and d new-side lines.                 *)
(***************************************************************************)
Last(s) == s[Len(s)]

\* the numeric fields of a range token '-a[,b]' or '+c[,d]', else None
RangeOf(tok) ==
    LET fields == SplitOn(DropFirst(tok, 1), ",", <<>>)
        first == IF AllDigits(fields[1]) THEN ParseInt(fields[1]) ELSE None
        count == IF Len(fields) = 1 THEN Some(1)
                 ELSE IF Len(fields) = 2 /\ AllDigits(fields[2])
                      THEN ParseInt(fields[2])
                 ELSE None
    IN  IF first = None \/ count = None THEN None
        ELSE Some([start |-> first[1], count |-> count[1]])

\* '@@ -a[,b] +c[,d] @@': its two ranges, else None
HunkRanges(line) ==
    LET toks == Split(line)
    IN  IF /\ Len(toks) >= 4
           /\ toks[1] = <<"@", "@">> /\ toks[4] = <<"@", "@">>
           /\ StartsWith(toks[2], <<"-">>) /\ StartsWith(toks[3], <<"+">>)
           /\ RangeOf(toks[2]) # None /\ RangeOf(toks[3]) # None
        THEN Some([old |-> RangeOf(toks[2])[1], new |-> RangeOf(toks[3])[1]])
        ELSE None

\* a '@@' line whose new-side start can be read: some token is '+<int>...'
HasNewStart(line) ==
    /\ StartsWith(line, <<"@", "@">>)
    /\ LET toks == Split(line)
       IN  \E k \in 1..Len(toks) :
              /\ StartsWith(toks[k], <<"+">>)
              /\ AllDigits(SplitOn(DropFirst(toks[k], 1), ",", <<>>)[1])

IsMetaLine(line) ==
    \/ StartsWith(line, <<"d", "i", "f", "f", " ", "-", "-", "g", "i", "t">>)
    \/ StartsWith(line, <<"i", "n", "d", "e", "x">>)
    \/ StartsWith(line, <<"-", "-", "-", " ">>)

IsContextLine(line) == StartsWith(line, <<" ">>)
IsRemovedLine(line) == StartsWith(line, <<"-">>)
IsNewFileLine(line) == StartsWith(line, <<"+", "+", "+", " ">>) /\ Len(line) > 4

\* the tag of every line of a well-formed diff, or <<"bad">>
RECURSIVE Tags(_, _, _, _)
Tags(ls, mode, b, d) ==
    IF ls = <<>>
    THEN (IF mode = "body" /\ b = 0 /\ d = 0 THEN <<>> ELSE <<"bad">>)
    ELSE
      LET line == Head(ls)
          rest(tag, m, nb, nd) ==
              LET r == Tags(Tail(ls), m, nb, nd)
              IN  IF r # <<>> /\ Last(r) = "bad" THEN <<"bad">>
                  ELSE <<tag>> \o r
          top == IF StartsWith(line, <<"-", "-", "-", " ">>)
                 THEN rest("old", "old", 0, 0)
                 ELSE IF IsMetaLine(line) THEN rest("meta", "top", 0, 0)
                 ELSE <<"bad">>
          hunk == LET r == HunkRanges(line)[1]
                  IN  rest("hunk", "body", r.old.count, r.new.count)
      IN  CASE mode = "top" -> top
            [] mode = "old" ->
                 IF IsNewFileLine(line) THEN rest("new", "file", 0, 0)
                 ELSE <<"bad">>
            [] mode = "file" ->
                 IF HunkRanges(line) # None THEN hunk ELSE <<"bad">>
            [] mode = "body" ->
                 IF b = 0 /\ d = 0
                 THEN (IF HunkRanges(line) # None THEN hunk ELSE top)
                 ELSE IF IsContextLine(line) /\ b > 0 /\ d > 0
                      THEN rest("ctx", "body", b - 1, d - 1)
                 ELSE IF IsRemovedLine(line) /\ b > 0
                      THEN rest("rem", "body", b - 1, d)
                 ELSE IF StartsWith(line, <<"+">>) /\ d > 0
                      THEN rest("add", "body", b, d - 1)
                 ELSE <<"bad">>

DiffTags(ls) == Tags(ls, "top", 0, 0)

WellFormedDiff(ls) == ls # <<>> /\ Len(DiffTags(ls)) = Len(ls)

LatestTag(tags, tag, i) ==
    CHOOSE h \in 1..(i - 1) :
        tags[h] = tag /\ \A m \in (h + 1)..(i - 1) : tags[m] # tag

\* position in the new file of the added line at index i
ActualLine(ls, i) ==
    LET tags == DiffTags(ls)
        h == LatestTag(tags, "hunk", i)
    IN  HunkRanges(ls[h])[1].new.start
          + Cardinality({m \in (h + 1)..(i - 1) : tags[m] \in {"ctx", "add"}})

\* the file the line at index i belongs to
ActualFileName(header) ==
    LET name == DropFirst(header, 4)
    IN  IF StartsWith(name, <<"b", "/">>) THEN DropFirst(name, 2) ELSE name

ActualFile(ls, i) == ActualFileName(ls[LatestTag(DiffTags(ls), "new", i)])

\* all <<file, <<lineno, text>>>> of a dict of line lists
Entries(fc) ==
    UNION {{<<fc[k][1], fc[k][2][m]>> : m \in 1..Len(fc[k][2])} :
              k \in 1..Len(fc)}

(***************************************************************************)
(* Claims about parse_diff_content.                                        *)
(***************************************************************************)
ExpectedEntries(ls) ==
    {<<ActualFile(ls, i),
       <<ActualLine(ls, i), DropFirst(ls[i], 1)>>>> :
        i \in {m \in 1..Len(ls) : DiffTags(ls)[m] = "add"}}

\* C1: for a well-formed unified diff, also one whose hunks hold context
\* and removed lines, every added line is recorded under its actual line
\* number in the new file: the hunk's new-side start plus the number of
\* context and added lines before it in the hunk.  (Added lines whose
\* text begins with '++' are left to C3.)
C1_ActualLineNumbers ==
    /\ WellFormedDiff(lines)
    /\ \A i \in 1..Len(lines) :
          DiffTags(lines)[i] = "add" => ~StartsWith(lines[i], <<"+", "+", "+">>)
    => Entries(file_changes) = ExpectedEntries(lines)

\* index of the latest '+++' line before index k, 0 if none
LatestFileHeader(ls, k) ==
    IF \E i \in 1..(k - 1) : StartsWith(ls[i], <<"+", "+", "+">>)
    THEN CHOOSE i \in 1..(k - 1) :
            /\ StartsWith(ls[i], <<"+", "+", "+">>)
            /\ \A m \in (i + 1)..(k - 1) : ~StartsWith(ls[m], <<"+", "+", "+">>)
    ELSE 0

\* C2: an entry is emitted for a '+' line only if a valid hunk header lies
\* between the '+++' line of its file and that '+' line; stated for the
\* diffs that open with a '+++' line, so that every hunk header belongs to
\* a file section.
C2_OwnHunkHeader ==
    [][file_changes' # file_changes /\ IsNewFileLine(lines'[1]) =>
         LET k == Len(lines')
             i == LatestFileHeader(lines', k)
         IN  i > 0 /\ \E j \in (i + 1)..(k - 1) : HasNewStart(lines'[j])]_vars

\* the shape '[--- old] +++ new, @@ -a,b +c,d @@, k lines starting with +'
SingleHunkOffset(ls) ==
    IF ls # <<>> /\ StartsWith(ls[1], <<"-", "-", "-", " ">>) THEN 1 ELSE 0

IsSingleHunkDiff(ls) ==
    LET m == SingleHunkOffset(ls)
    IN  /\ Len(ls) >= m + 2
        /\ IsNewFileLine(ls[m + 1])
        /\ HunkRanges(ls[m + 2]) # None
        /\ \A i \in (m + 3)..Len(ls) : StartsWith(ls[i], <<"+">>)

\* C3: a single-file, single-hunk diff '@@ -a,b +c,d @@' followed by k
\* lines starting with '+' yields exactly the k entries (c, ...), ...,
\* (c+k-1, ...) in order, each text being its line without the first '+'.
C3_ConsecutiveAddedLines ==
    IsSingleHunkDiff(lines) =>
        LET m == SingleHunkOffset(lines)
            k == Len(lines) - (m + 2)
            c == HunkRanges(lines[m + 2])[1].new.start
            name == ActualFileName(lines[m + 1])
        IN  IF k = 0 THEN file_changes = <<>>
            ELSE file_changes =
                   <<<<name, [i \in 1..k |->
                               <<c + i - 1, DropFirst(lines[m + 2 + i], 1)>>]>>>>

\* the latest '@@' line of ls exists and has no readable new-side start
LatestHunkUnparseable(ls) ==
    \E h \in 1..Len(ls) :
        /\ StartsWith(ls[h], <<"@", "@">>) /\ ~HasNewStart(ls[h])
        /\ \A m \in (h + 1)..Len(ls) : ~StartsWith(ls[m], <<"@", "@">>)

\* C4: after a '@@' line without a parseable new-side start, current_line
\* is unset and '+' lines are dropped until the next parseable '@@' line,
\* also when a valid hunk header came earlier.
C4_MalformedHunkUnsets ==
    [][LatestHunkUnparseable(lines') =>
          /\ current_line' = None
          /\ file_changes' = file_changes]_vars

\* every recorded pair is an added ('+', not '+++') line minus its '+'
EntriesAreAddedLines ==
    \A e \in Entries(file_changes) :
        \E i \in 1..Len(lines) :
            /\ StartsWith(lines[i], <<"+">>)
            /\ ~StartsWith(lines[i], <<"+", "+", "+">>)
            /\ e[2][2] = DropFirst(lines[i], 1)

\* C5: every recorded pair comes from a line that starts with '+' and is
\* not a '+++' header, its text being the line minus the leading '+';
\* context, removed and metadata lines change neither current_file nor
\* current_line nor any list.
C5_OnlyAddedLines ==
    [][/\ EntriesAreAddedLines'
       /\ (\/ IsContextLine(Last(lines'))
           \/ IsRemovedLine(Last(lines'))
           \/ IsMetaLine(Last(lines')))
            => UNCHANGED <<current_file, current_line, file_changes>>]_vars

\* a context, removed or metadata line was consumed inside an open hunk
\* of a file that already has entries
C5_Witness ==
    /\ Len(lines) = MaxDiffLen
    /\ IsContextLine(Last(lines))
    /\ IsRemovedLine(lines[Len(lines) - 1])
    /\ file_changes # <<>> /\ current_line # None

(***************************************************************************)
(* run_spell_checker                                                       *)
(***************************************************************************)
\* the lines printed to standard output
DebugLine(text) == [kind |-> "debug", text |-> text]
MessageLine(text) == [kind |-> "message", text |-> text]

\* set(out.strip().splitlines())
Misspelled(out) ==
    LET ws == SplitLines(Strip(out)) IN {ws[k] : k \in 1..Len(ws)}

\* variant: the token is compared as it stands
CleanKeepsAll(word) == word

\* ''.join(filter(str.isalpha, word))
Clean(word) == SelectSeq(word, IsAlpha)

\* variant: the allow-list is never consulted
IsSuppressedNever(clean, dict) == FALSE

\* `dictionary_words and clean in dictionary_words`
IsSuppressed(clean, dict) == dict # {} /\ clean \in dict

\* the inner loop over line.split() for one (lineno, line) pair
RECURSIVE AnnotateWords(_, _, _, _, _)
AnnotateWords(words, lineno, line, missp, dict) ==
    IF words = <<>> THEN <<>>
    ELSE LET clean == Clean(Head(words))
             rest == AnnotateWords(Tail(words), lineno, line, missp, dict)
         IN  IF clean # <<>> /\ clean \in missp
             THEN IF IsSuppressed(clean, dict) THEN rest
                  ELSE <<<<lineno, clean, Strip(line)>>>> \o rest
             ELSE rest

AnnotateLine(pair, missp, dict) ==
    AnnotateWords(Split(pair[2]), pair[1], pair[2], missp, dict)

\* the outer loop over lines
RECURSIVE AnnotateLines(_, _, _)
AnnotateLines(ls, missp, dict) ==
    IF ls = <<>> THEN <<>>
    ELSE AnnotateLine(Head(ls), missp, dict)
           \o AnnotateLines(Tail(ls), missp, dict)

\* run_spell_checker(lines, cmd, dictionary_words), `out` being what the
\* external checker wrote
RunSpellChecker(ls, out, dict) == AnnotateLines(ls, Misspelled(out), dict)

(***************************************************************************)
(* The inputs of run_spell_checker: text lines, the words the external     *)
(* checker may list, and the allow-lists.                                  *)
(***************************************************************************)
WordAb == <<"a", "b">>
WordCd == <<"c", "d">>
WordZz == <<"z", "z">>

TextTwoWords == <<"a", "b", " ", "c", "d">>
TextRepeated == <<"a", "b", ",", " ", "a", "b">>
TextPadded == <<" ", "c", "d", ".", " ">>
TextDigits == <<"a", "1", "b">>
TextNoLetters == <<".", ".", ".", " ", "1", "2">>

TextPool ==
    {TextTwoWords, TextRepeated, TextPadded, TextDigits, TextNoLetters, <<>>}

LinePairs == {<<n, txt>> : n \in 1..2, txt \in TextPool}

RECURSIVE SeqsUpTo(_, _)
SeqsUpTo(S, n) ==
    IF n = 0 THEN {<<>>}
    ELSE LET shorter == SeqsUpTo(S, n - 1)
         IN  shorter \cup {Append(s, x) : s \in shorter, x \in S}

\* what the checker writes: one flagged word per line
CheckerOutputs ==
    {JoinLines(ws) \o (IF ws = <<>> THEN <<>> ELSE <<"\n">>) :
        ws \in {<<>>, <<WordAb>>, <<WordCd>>, <<WordZz>>, <<WordAb, WordCd>>,
                <<WordCd, WordZz>>, <<WordAb, WordCd, WordZz>>}}

Dictionaries == SUBSET {WordAb, WordCd}

\* line 83 and lines 84-87: the debug trace, Popen, communicate
StartChecker ==
    /\ pc = "spawn"
    /\ \E out \in CheckerOutputs : misspelled' = Some(Misspelled(out))
    /\ stdout' = IF is_debug THEN Append(stdout, DebugLine("Aspell cmd"))
                 ELSE stdout
    /\ pc' = "loop"
    /\ UNCHANGED <<parseVars, mainVars, sc_lines, dictionary_words,
                   annotations, li, args, is_debug>>

\* Popen raises (the command cannot be started)
StartCheckerFails ==
    /\ pc = "spawn"
    /\ stdout' = IF is_debug THEN Append(stdout, DebugLine("Aspell cmd"))
                 ELSE stdout
    /\ pc' = "raised"
    /\ raised' = "OSError"
    /\ UNCHANGED <<parseVars, checkVars, dictionary_words, args, is_debug,
                   fidx, any_issues, exit_status>>

\* lines 89-95: one iteration of `for lineno, line in lines`
CheckLine ==
    /\ pc = "loop" /\ li < Len(sc_lines)
    /\ annotations' =
         annotations \o AnnotateLine(sc_lines[li + 1], misspelled[1],
                                     dictionary_words)
    /\ li' = li + 1
    /\ UNCHANGED <<parseVars, mainVars, sc_lines, misspelled,
                   dictionary_words, args, is_debug, pc, stdout>>

\* line 96
ReturnAnnotations ==
    /\ pc = "loop" /\ li = Len(sc_lines)
    /\ pc' = "returned"
    /\ UNCHANGED <<parseVars, mainVars, checkVars, dictionary_words, args,
                   is_debug, stdout>>

InitCheck ==
    /\ lines = <<>> /\ current_file = None /\ current_line = None
    /\ file_changes = <<>>
    /\ sc_lines \in SeqsUpTo(LinePairs, MaxLines)
    /\ dictionary_words \in Dictionaries
    /\ is_debug \in BOOLEAN
    /\ misspelled = None /\ annotations = <<>> /\ li = 0
    /\ pc = "spawn"
    /\ args = None /\ fidx = 0 /\ any_issues = FALSE /\ stdout = <<>>
    /\ exit_status = None /\ raised = "none"

NextCheck ==
    \/ StartChecker
    \/ StartCheckerFails
    \/ CheckLine
    \/ ReturnAnnotations

SpecCheck == InitCheck /\ [][NextCheck]_vars

(***************************************************************************)
(* Claims about run_spell_checker.                                         *)
(***************************************************************************)
\* the letters of a token, in order
RECURSIVE LettersOf(_)
LettersOf(w) ==
    IF w = <<>> THEN <<>>
    ELSE IF Head(w) \in Letters THEN <<Head(w)>> \o LettersOf(Tail(w))
    ELSE LettersOf(Tail(w))

\* the token positions <<line index, token index>> that must be reported
Flagged(ls, missp, dict) ==
    {p \in (1..Len(ls)) \X (1..8) :
        /\ p[2] <= Len(Split(ls[p[1]][2]))
        /\ LET w == LettersOf(Split(ls[p[1]][2])[p[2]])
           IN  w # <<>> /\ w \in missp /\ w \notin dict}

Before(p, q) == p[1] < q[1] \/ (p[1] = q[1] /\ p[2] < q[2])

C9_OneAnnotationPerToken ==
    pc = "returned" =>
        LET F == Flagged(sc_lines, misspelled[1], dictionary_words)
        IN  /\ Len(annotations) = Cardinality(F)
            /\ \A p \in F :
                 LET rank == 1 + Cardinality({q \in F : Before(q, p)})
                     pair == sc_lines[p[1]]
                 IN  annotations[rank] =
                       <<pair[1], LettersOf(Split(pair[2])[p[2]]),
                         Strip(pair[2])>>

\* two lines, the first holding the same flagged word twice
C9_Witness ==
    /\ pc = "returned"
    /\ Len(sc_lines) = 2 /\ sc_lines[1][2] = TextRepeated
    /\ sc_lines[2][2] = TextPadded
    /\ Len(annotations) = 3

(***************************************************************************)
(* emit_github_annotations, emit_console_output                            *)
(***************************************************************************)
\* the printed line "::error file=F,line=N::Possible typo: 'W' in line: C"
GithubLine(file, ann) ==
    [kind |-> "github", file |-> file, lineno |-> ann[1], word |-> ann[2],
     context |-> ann[3]]

\* the printed line "F:N: typo: 'W' in: C"
ConsoleLine(file, ann) ==
    [kind |-> "console", file |-> file, lineno |-> ann[1], word |-> ann[2],
     context |-> ann[3]]

RECURSIVE EmitGithubAnnotations(_, _, _, _)
EmitGithubAnnotations(out, file, anns, debug) ==
    IF anns = <<>> THEN out
    ELSE EmitGithubAnnotations(
             (IF debug
              THEN Append(out, DebugLine("Emitting github annotation"))
              ELSE out) \o <<GithubLine(file, Head(anns))>>,
             file, Tail(anns), debug)

RECURSIVE EmitConsoleOutput(_, _, _)
EmitConsoleOutput(out, file, anns) ==
    IF anns = <<>> THEN out
    ELSE EmitConsoleOutput(Append(out, ConsoleLine(file, Head(anns))),
                           file, Tail(anns))

(***************************************************************************)
(* main                                                                    *)
(***************************************************************************)
\* the messages of main, without their leading emoji
MsgNoTypos == MessageLine("No typos found.")
MsgNoFiles == MessageLine("No files to check.")
MsgDiffFileNotFound == MessageLine("Diff file not found")

\* bytes(s, "utf-8").decode("unicode_escape") for the escapes \n, \t and
\* \\ (the only ones in the inputs of the model); a lone backslash at the
\* end raises UnicodeDecodeError (None)
UnicodeEscape(s) ==
    LET \* the backslashes right before position i
        before(i) ==
            Cardinality({j \in 1..(i - 1) :
                            \A m \in j..(i - 1) : s[m] = "\\"})
        \* position i opens an escape sequence
        opens(i) == s[i] = "\\" /\ before(i) % 2 = 0
        known(c) == c \in {"n", "t", "\\"}
        decoded(c) == CASE c = "n" -> "\n" [] c = "t" -> "\t" [] OTHER -> c
        \* what position i contributes, "" for nothing
        piece(i) ==
            IF opens(i) THEN (IF known(s[i + 1]) THEN "" ELSE s[i])
            ELSE IF i > 1 /\ opens(i - 1) THEN decoded(s[i])
            ELSE s[i]
        kept(c) == c # ""
    IN  IF s # <<>> /\ opens(Len(s)) THEN None
        ELSE Some(SelectSeq([i \in 1..Len(s) |-> piece(i)], kept))

\* set(args.dictionary.split()) if args.dictionary else set()
DictionaryWords(text) ==
    IF text # <<>> THEN {Split(text)[k] : k \in 1..Len(Split(text))} ELSE {}

\* {"<stdin>": [(i + 1, line) for i, line in enumerate(lines.splitlines())]}
StdinName == <<"<", "s", "t", "d", "i", "n", ">">>

StdinChanges(text) ==
    <<<<StdinName,
        [i \in 1..Len(SplitLines(text)) |-> <<i, SplitLines(text)[i]>>]>>>>

\* lines 150-155: the file_changes of a non-empty --input-string
InputStringChanges(s) ==
    LET text == UnicodeEscape(s)[1]
    IN  IF StartsWith(LStrip(text), <<"d", "i", "f", "f">>)
        THEN ParseDiffContent(text)
        ELSE StdinChanges(text)

\* variant: --diff-file is looked at before --input-string
SelectedSourceFileFirst(a) ==
    IF Truthy(a.diff_file) THEN "file"
    ELSE IF Truthy(a.input_string) THEN "string"
    ELSE "git"

\* which branch of `if args.input_string / elif args.diff_file / else`
SelectedSource(a) ==
    IF Truthy(a.input_string) THEN "string"
    ELSE IF Truthy(a.diff_file) THEN "file"
    ELSE "git"

\* the final `if any_issues: sys.exit(1)`
ExitStatus(issues) == IF issues THEN 1 ELSE 0

\* variant: the loop body prints nothing
EmitNothing(out, file, anns, console, debug) == out

\* what the loop body prints for one file
EmitAnnotations(out, file, anns, console, debug) ==
    IF anns = <<>> THEN out
    ELSE IF console THEN EmitConsoleOutput(out, file, anns)
    ELSE EmitGithubAnnotations(out, file, anns, debug)

(***************************************************************************)
(* The inputs of main.                                                     *)
(***************************************************************************)
LineAddedCd == <<"+", "c", "d">>

\* a diff text: its lines, each ended by a line break
DiffText(ls) == JoinLines(ls) \o <<"\n">>

DiffOneFile ==
    DiffText(<<LineDiffGit, LineIndex, LineOldFile, LineNewFileF, LineHunk,
               LineContext, LineAdded>>)

DiffTwoFiles ==
    DiffText(<<LineDiffGit, LineOldFile, LineNewFileF, LineHunk, LineAdded,
               LineDiffGit, LineOldFile, LineNewFileG, LineHunk,
               LineAddedCd>>)

DiffNoAdditions ==
    DiffText(<<LineDiffGit, LineOldFile, LineNewFileF, LineHunk,
               LineRemoved>>)

DiffTextPool == {DiffOneFile, DiffTwoFiles, DiffNoAdditions, <<>>}

TextEscaped == <<"a", "b", "\\", "n", "c", "d">>
TextDangling == <<"a", "b", "\\">>

InputStrings ==
    {None, Some(<<>>), Some(<<" ">>), Some(<<" ", "\n">>), Some(TextTwoWords),
     Some(TextEscaped), Some(TextDangling), Some(<<"\n">> \o DiffOneFile),
     Some(DiffTwoFiles)}

PathPresent == <<"o", "k", ".", "d", "i", "f", "f">>
PathMissing == <<"n", "o", ".", "d", "i", "f", "f">>

\* os.path.isfile(path)
IsFile(path) == path = PathPresent

DiffFiles == {None, Some(<<>>), Some(PathPresent), Some(PathMissing)}

DictionaryArgs == {<<>>, WordAb, <<"a", "b", " ", "c", "d">>}

FileNames == <<<<"f">>, <<"g">>, <<"h">>>>

\* the sorted lists get_diff_files can return
RECURSIVE SortedFrom(_, _)
SortedFrom(k, n) ==
    IF n = 0 \/ k > Len(FileNames) THEN {<<>>}
    ELSE SortedFrom(k + 1, n)
           \cup {<<FileNames[k]>> \o s : s \in SortedFrom(k + 1, n - 1)}

ChangedFileLists == SortedFrom(1, MaxFiles)

\* line 141: the namespace parse_args returns; json_ok tells whether the
\* --include and --exclude values are JSON
InitMain ==
    /\ lines = <<>> /\ current_file = None /\ current_line = None
    /\ file_changes = <<>>
    /\ args \in [input_string : InputStrings, diff_file : DiffFiles,
                 console_output : BOOLEAN, dictionary : DictionaryArgs,
                 debug : BOOLEAN, json_ok : BOOLEAN]
    /\ is_debug = FALSE
    /\ dictionary_words = {}
    /\ sc_lines = <<>> /\ misspelled = None /\ annotations = <<>> /\ li = 0
    /\ pc = "start"
    /\ fidx = 0 /\ any_issues = FALSE /\ stdout = <<>>
    /\ exit_status = None /\ raised = "none"

\* lines 143-148
LoadConfig ==
    /\ pc = "start" /\ args.json_ok
    /\ is_debug' = args.debug
    /\ dictionary_words' = DictionaryWords(args.dictionary)
    /\ pc' = "main"
    /\ UNCHANGED <<parseVars, checkVars, mainVars, stdout>>

\* lines 143-147 when json.loads raises: the exception leaves main
LoadConfigFails ==
    /\ pc = "start" /\ ~args.json_ok
    /\ is_debug' = args.debug
    /\ raised' = "JSONDecodeError"
    /\ exit_status' = Some(1)
    /\ pc' = "exit"
    /\ UNCHANGED <<parseVars, checkVars, dictionary_words, args, fidx,
                   any_issues, stdout>>

\* lines 150-155
SelectInputString ==
    /\ pc = "main" /\ SelectedSource(args) = "string"
    /\ UnicodeEscape(args.input_string[1]) # None
    /\ file_changes' = InputStringChanges(args.input_string[1])
    /\ pc' = "files"
    /\ UNCHANGED <<lines, current_file, current_line, checkVars, mainVars,
                   dictionary_words, is_debug, stdout>>

\* lines 150-151 when the decode raises: the exception leaves main
InputStringUndecodable ==
    /\ pc = "main" /\ SelectedSource(args) = "string"
    /\ UnicodeEscape(args.input_string[1]) = None
    /\ raised' = "UnicodeDecodeError"
    /\ exit_status' = Some(1)
    /\ pc' = "exit"
    /\ UNCHANGED <<parseVars, checkVars, dictionary_words, args, is_debug,
                   fidx, any_issues, stdout>>

\* lines 156-159
DiffFileNotFound ==
    /\ pc = "main" /\ SelectedSource(args) = "file"
    /\ ~IsFile(args.diff_file[1])
    /\ stdout' = Append(stdout, MsgDiffFileNotFound)
    /\ exit_status' = Some(1)
    /\ pc' = "exit"
    /\ UNCHANGED <<parseVars, checkVars, dictionary_words, args, is_debug,
                   fidx, any_issues, raised>>

\* lines 156-157 and 160-162
SelectDiffFile ==
    /\ pc = "main" /\ SelectedSource(args) = "file"
    /\ IsFile(args.diff_file[1])
    /\ \E diff_text \in DiffTextPool :
          file_changes' = ParseDiffContent(diff_text)
    /\ pc' = "files"
    /\ UNCHANGED <<lines, current_file, current_line, checkVars, mainVars,
                   dictionary_words, is_debug, stdout>>

\* what get_diff_files traces when is_debug is set
GitDebugLines(detached) ==
    IF is_debug
    THEN (IF detached THEN <<DebugLine("Detached HEAD detected")>> ELSE <<>>)
           \o <<DebugLine("git diff cmd"), DebugLine("All files"),
                DebugLine("Filtered files")>>
    ELSE <<>>

\* lines 163-167: get_diff_files returns no file
NoFilesToCheck ==
    /\ pc = "main" /\ SelectedSource(args) = "git"
    /\ \E detached \in BOOLEAN :
          stdout' = stdout \o GitDebugLines(detached) \o <<MsgNoFiles>>
    /\ exit_status' = Some(0)
    /\ pc' = "exit"
    /\ UNCHANGED <<parseVars, checkVars, dictionary_words, args, is_debug,
                   fidx, any_issues, raised>>

\* get_diff_lines(file): parse_diff_content(result.stdout).get(file, [])
GetDiffLines(file, diff_text) == Get(ParseDiffContent(diff_text), file)

\* lines 163-164 and 168: one `git diff -U0` per file of get_diff_files
SelectGitDiff ==
    /\ pc = "main" /\ SelectedSource(args) = "git"
    /\ \E files \in ChangedFileLists \ {<<>>}, detached \in BOOLEAN :
       \E outs \in [1..Len(files) -> DiffTextPool] :
          /\ file_changes' =
               [k \in 1..Len(files) |->
                   <<files[k], GetDiffLines(files[k], outs[k])>>]
          /\ stdout' = stdout \o GitDebugLines(detached)
               \o (IF is_debug
                   THEN [k \in 1..Len(files) |-> DebugLine("Diff cmd")]
                   ELSE <<>>)
    /\ pc' = "files"
    /\ UNCHANGED <<lines, current_file, current_line, checkVars, mainVars,
                   dictionary_words, is_debug>>

\* lines 171-178: one iteration of `for file, lines in file_changes.items()`
CheckFile ==
    /\ pc = "files" /\ fidx < Len(file_changes)
    /\ LET file == file_changes[fidx + 1][1]
           flines == file_changes[fidx + 1][2]
       IN  \E out \in CheckerOutputs :
           LET anns == RunSpellChecker(flines, out, dictionary_words)
           IN  /\ sc_lines' = flines
               /\ misspelled' = Some(Misspelled(out))
               /\ annotations' = anns
               /\ li' = Len(flines)
               /\ any_issues' = (any_issues \/ anns # <<>>)
               /\ stdout' =
                    EmitAnnotations(
                        IF is_debug
                        THEN Append(stdout, DebugLine("Aspell cmd"))
                        ELSE stdout,
                        file, anns, args.console_output, is_debug)
    /\ fidx' = fidx + 1
    /\ UNCHANGED <<parseVars, dictionary_words, args, is_debug, pc,
                   exit_status, raised>>

\* line 172 when Popen raises: the exception leaves main, status 1
CheckFileFails ==
    /\ pc = "files" /\ fidx < Len(file_changes)
    /\ stdout' = IF is_debug THEN Append(stdout, DebugLine("Aspell cmd"))
                 ELSE stdout
    /\ raised' = "OSError"
    /\ exit_status' = Some(1)
    /\ pc' = "exit"
    /\ UNCHANGED <<parseVars, checkVars, dictionary_words, args, is_debug,
                   fidx, any_issues>>

\* lines 180-183
Finish ==
    /\ pc = "files" /\ fidx = Len(file_changes)
    /\ exit_status' = Some(ExitStatus(any_issues))
    /\ stdout' = IF any_issues THEN stdout ELSE Append(stdout, MsgNoTypos)
    /\ pc' = "exit"
    /\ UNCHANGED <<parseVars, checkVars, dictionary_words, args, is_debug,
                   fidx, any_issues, raised>>

NextMain ==
    \/ LoadConfig
    \/ LoadConfigFails
    \/ SelectInputString
    \/ InputStringUndecodable
    \/ DiffFileNotFound
    \/ SelectDiffFile
    \/ NoFilesToCheck
    \/ SelectGitDiff
    \/ CheckFile
    \/ CheckFileFails
    \/ Finish

SpecMain == InitMain /\ [][NextMain]_vars

(***************************************************************************)
(* Claims about main.                                                      *)
(***************************************************************************)
IsAnnotationLine(l) == l.kind \in {"github", "console"}

AnnotationLines == SelectSeq(stdout, IsAnnotationLine)

IsNotDebugLine(l) == l.kind # "debug"

\* a --diff-file path was given and no such file exists
DiffFileNamedMissing ==
    /\ args.diff_file # None /\ args.diff_file[1] # <<>>
    /\ ~IsFile(args.diff_file[1])

DiffFileIsTheSource ==
    /\ ~(args.input_string # None /\ args.input_string[1] # <<>>)
    /\ args.diff_file # None /\ args.diff_file[1] # <<>>

\* the number of backslashes s ends with
RECURSIVE TrailingBackslashes(_)
TrailingBackslashes(s) ==
    IF s # <<>> /\ Last(s) = "\\"
    THEN 1 + TrailingBackslashes(SubSeq(s, 1, Len(s) - 1))
    ELSE 0

\* the run stops on an uncaught error before anything is checked: an
\* --include/--exclude value that is not JSON, or a non-empty
\* --input-string that ends in an unpaired backslash
AbortsBeforeChecking ==
    \/ ~args.json_ok
    \/ /\ args.input_string # None /\ args.input_string[1] # <<>>
       /\ TrailingBackslashes(args.input_string[1]) % 2 = 1

C8_BlankInputString ==
    /\ pc = "exit" /\ raised = "none"
    /\ args.input_string # None /\ Strip(args.input_string[1]) = <<>>
    => /\ AnnotationLines = <<>>
       /\ SelectSeq(stdout, IsNotDebugLine) = <<MsgNoTypos>>
       /\ exit_status = Some(0)

\* C10 as stated: in a run over two or more files no annotation line is
\* printed before every file has been checked.
C10_ReportAfterAllChecks_Original ==
    Len(file_changes) >= 2 /\ AnnotationLines # <<>>
        => fidx = Len(file_changes)

FilesChecked == {file_changes[k][1] : k \in 1..fidx}

\* C10 (amended): main checks and reports file by file: the annotations
\* of a file are printed as soon as its own check returns and before the
\* next file is checked, so the lines printed so far are those of the
\* files already checked, the latest file's last.
C10_ReportPerFile ==
    fidx >= 1 =>
        LET out == AnnotationLines
            n == Len(annotations)
            file == file_changes[fidx][1]
        IN  /\ \A k \in 1..Len(out) : out[k].file \in FilesChecked
            /\ Len(out) >= n
            /\ \A k \in 1..n :
                 LET l == out[Len(out) - n + k]
                 IN  /\ l.file = file
                     /\ <<l.lineno, l.word, l.context>> = annotations[k]
            /\ any_issues = (out # <<>>)

\* the checker failed to start on the second file after the first file's
\* annotations were printed
C10_Witness ==
    /\ pc = "exit" /\ raised = "OSError"
    /\ Len(file_changes) >= 2 /\ fidx = 1
    /\ AnnotationLines # <<>>

====
